---- MODULE Spec2Model ----
(***************************************************************************)
(* The interactive application state machine of trakt-tv-updater           *)
(* (src/src/interface/app.rs, struct App) together with the background     *)
(* Data Manager worker it queries and the event loop that drives it        *)
(* (src/src/interface/mod.rs).                                             *)
(*                                                                         *)
(* Conventions                                                             *)
(*  - Option<T> is a sequence of length at most one: <<>> is None and      *)
(*    <<x>> is Some(x).                                                    *)
(*  - A usize value is represented by its two's complement residue: a      *)
(*    small index is itself and usize::MAX, the result of 0 - 1 in a build *)
(*    without overflow checks, is -1.  Addition and subtraction of small   *)
(*    amounts are then the integer operations, the order of usize is       *)
(*    UsizeLess, `as i32` and `as usize` keep the representative, and      *)
(*    `as u16` is the remainder modulo 2^16.  Whether an overflowing       *)
(*    operation panics or wraps is a property of the build                 *)
(*    (overflow_checks), fixed at start.                                   *)
(*  - Vec indices are 0-based in the program and 1-based in sequences:     *)
(*    shows[i] of the program is shows[i + 1] here.                        *)
(*  - One turn of the event loop is two steps: the call the event leads    *)
(*    to (pc goes from "idle" to "returned", and op, result and calls      *)
(*    record the call, what it returned and the Remote Client and Local    *)
(*    Store calls it made), then the loop's return to its head (LoopNext). *)
(*    tick alone takes more steps, because it blocks in query while the    *)
(*    worker runs.                                                         *)
(***************************************************************************)
EXTENDS Integers, Sequences, FiniteSets, TLC

VARIABLES
    running,             \* App.running
    mode,                \* App.mode
    table_state,         \* App.table_state.selected()
    scroll_state,        \* App.scroll_state: content_length and position
    shows,               \* App.shows
    seasons,             \* App.show_view.seasons
    season_table_state,  \* App.show_view.season_table_state.selected()
    pc,                  \* where the interactive loop is
    op,                  \* the call of this loop turn
    result,              \* what the call of this loop turn returned
    calls,               \* Remote Client and Local Store calls of this loop turn
    db,                  \* the rows the Local Store lists
    req,                 \* Data Manager request channel (interactive -> worker)
    resp,                \* Data Manager response channel (worker -> interactive)
    worker_pc,           \* where the background worker is
    worker_req,          \* the request the worker is serving
    qid,                 \* number of query calls issued so far
    overflow_checks      \* the build panics on integer overflow (else it wraps)

vars == <<running, mode, table_state, scroll_state, shows, seasons,
          season_table_state, pc, op, result, calls, db, req, resp, worker_pc,
          worker_req, qid, overflow_checks>>

app_vars == <<running, mode, table_state, scroll_state, shows, seasons,
              season_table_state>>

dm_vars == <<db, req, resp, worker_pc, worker_req>>

-----------------------------------------------------------------------------
(* Bounds of the model *)

MaxShows == 2
MaxSeasons == 2
MaxQueries == 2
MaxIndex == 2
LargeShows == 65537

(* Program constants *)

PageStep == 20
U16Modulus == 65536

-----------------------------------------------------------------------------
(* Data *)

None == <<>>
Some(x) == <<x>>
IsSome(o) == o # <<>>
Unwrap(o) == o[1]

AppMode == {"Initializing", "MainView", "Querying", "HelpWindow", "SeasonView"}
UserStatusShow == {"Todo", "Watched", "Unwatched"}
UserStatusSeason == {"Unfilled", "OnRelease", "OtherDate"}

\* Up, Down and the mouse wheel move by 1, Ctrl-u and Ctrl-d by 20.
Steps == {1, PageStep}

UsizeLess(a, b) == IF (a < 0) = (b < 0) THEN a < b ELSE b < 0
UsizeMin(a, b) == IF UsizeLess(b, a) THEN b ELSE a
I32Max(a, b) == IF a < b THEN b ELSE a
AsU16(x) == x % U16Modulus

\* v[i] of a Vec is in bounds
InBounds(i, v) == i >= 0 /\ i < Len(v)

-----------------------------------------------------------------------------
(* The Local Store's rows and the Remote Client's answers *)

\* Row k of the store as the listing returns it.  Row 1 was never fetched
\* with success: it carries no catalog id, and an overview of an earlier
\* attempt.  The other rows were fetched in an earlier session: they carry the
\* remote's text fields and a catalog id (one the remote no longer reports).
StoreRow(k) ==
    [imdb_id |-> k,
     user_status |-> IF k % 3 = 1 THEN "Todo"
                     ELSE IF k % 3 = 2 THEN "Watched" ELSE "Unwatched",
     trakt_id |-> IF k = 1 THEN None ELSE Some(k),
     overview |-> IF k = 1 THEN Some(0) ELSE Some(11),
     network |-> IF k = 1 THEN None ELSE Some(12),
     no_episodes |-> IF k = 1 THEN None ELSE Some(13)]

StoreContents == {[k \in 1..n |-> StoreRow(k)] : n \in 0..MaxShows}

\* A store with more rows than a 16-bit value can count.
LargeStoreContents == {[k \in 1..LargeShows |-> StoreRow(k)]}

\* show_details of query_detailed for the show imdb.
ShowDetails(imdb) ==
    [overview |-> 11, network |-> 12, aired_episodes |-> 13,
     trakt |-> 100 + imdb]

\* The season list update_show_with_seasons returns for n remote seasons: one
\* season per remote season, each with the status the store holds for it.
ReconciledSeasons(n) ==
    [k \in 1..n |->
        [season_no |-> k,
         user_status |-> IF k % 3 = 1 THEN "Unfilled"
                         ELSE IF k % 3 = 2 THEN "OnRelease" ELSE "OtherDate"]]

Call(name, arg, val, ok) == [name |-> name, arg |-> arg, val |-> val, ok |-> ok]

-----------------------------------------------------------------------------
(* App::new and the event loop *)

\* The App as App::new returns it, over a store that lists one of `stores`.
Start(stores) ==
    /\ running = TRUE
    /\ mode = "Initializing"
    /\ table_state = None
    /\ scroll_state = [content_length |-> 0, position |-> 0]
    /\ shows = <<>>
    /\ seasons = <<>>
    /\ season_table_state = None
    /\ pc = "idle"
    /\ op = "none"
    /\ result = "ok"
    /\ calls = <<>>
    /\ db \in stores
    /\ req = <<>>
    /\ resp = <<>>
    /\ worker_pc = "idle"
    /\ worker_req = None
    /\ qid = 0
    /\ overflow_checks \in BOOLEAN

Init == Start(StoreContents)

\* The event loop takes its next event: `while app.running`, one event at a time.
LoopTurn == pc = "idle" /\ running

\* The call returned: back to the head of the loop, which goes on while running.
LoopNext ==
    /\ pc = "returned"
    /\ running
    /\ pc' = "idle"
    /\ op' = "none"
    /\ result' = "ok"
    /\ calls' = <<>>
    /\ UNCHANGED <<app_vars, dm_vars, qid, overflow_checks>>

\* A panic unwinds out of the loop: nothing of the App runs again.
Panic ==
    /\ pc' = "panicked"
    /\ UNCHANGED <<app_vars, result, calls, dm_vars, qid, overflow_checks>>

\* A call that returns Ok(()) or () and did nothing.
Nothing ==
    /\ pc' = "returned"
    /\ result' = "ok"
    /\ calls' = <<>>
    /\ UNCHANGED <<app_vars, dm_vars, qid, overflow_checks>>

-----------------------------------------------------------------------------
(* Data Manager: DataManager::query and the worker loop *)

\* query sends the text on the request channel; a send to a worker that is
\* gone queues nothing.
Send(text, id) ==
    IF worker_pc = "dead" THEN req ELSE Append(req, [text |-> text, id |-> id])

WorkerRecv ==
    /\ worker_pc = "idle"
    /\ req # <<>>
    /\ worker_req' = Some(Head(req))
    /\ req' = Tail(req)
    /\ worker_pc' = "reading"
    /\ UNCHANGED <<app_vars, pc, op, result, calls, db, resp, qid, overflow_checks>>

\* Mutant: the worker finishes the listing and sends nothing back.
WorkerReply_NoAnswer ==
    /\ worker_pc = "reading"
    /\ worker_req' = None
    /\ worker_pc' = "idle"
    /\ UNCHANGED <<app_vars, pc, op, result, calls, db, req, resp, qid,
                   overflow_checks>>

\* The listing ignores the query text and returns every row.
WorkerReply ==
    /\ worker_pc = "reading"
    /\ resp' = Append(resp, [items |-> db, id |-> Unwrap(worker_req).id])
    /\ worker_req' = None
    /\ worker_pc' = "idle"
    /\ UNCHANGED <<app_vars, pc, op, result, calls, db, req, qid, overflow_checks>>

\* The worker panics while it executes the listing: its channel ends drop.
WorkerDie ==
    /\ worker_pc = "reading"
    /\ worker_pc' = "dead"
    /\ worker_req' = None
    /\ req' = <<>>
    /\ UNCHANGED <<app_vars, pc, op, result, calls, db, resp, qid, overflow_checks>>

-----------------------------------------------------------------------------
(* App::tick *)

\* Mutant: tick queries only while the mode is Initializing.
TickQueries_OnlyInitializing == mode = "Initializing" /\ shows = <<>>

\* `if self.shows.is_empty()`
TickQueries == shows = <<>>

\* Mutant: tick sends the query and returns without waiting for the response.
TickCallPc_NoWait == "idle"

\* `self.data_manager.query(..)` is a blocking call: tick waits in it.
TickCallPc == "query"

\* Mutant: a lost worker is swallowed and tick returns Ok(()).
TickNoneResult_Swallowed == "ok"

\* `.ok_or_else(|| eyre!("data manager thread panicked!"))?`
TickNoneResult == "err"

\* Mutant: the mode switch is forgotten.
TickMode_Stays(m) == m

\* `if self.mode == AppMode::Initializing { self.mode = AppMode::MainView; }`
TickMode(m) == IF m = "Initializing" THEN "MainView" ELSE m

\* tick with a non-empty list does nothing.
TickSkip ==
    /\ LoopTurn
    /\ ~TickQueries
    /\ op' = "tick"
    /\ Nothing

\* tick calls query and blocks for the response.
TickCall ==
    /\ LoopTurn
    /\ TickQueries
    /\ qid < MaxQueries
    /\ qid' = qid + 1
    /\ req' = Send("spurious", qid + 1)
    /\ pc' = TickCallPc
    /\ op' = "tick"
    /\ UNCHANGED <<app_vars, result, calls, db, resp, worker_pc, worker_req,
                   overflow_checks>>

\* query returned Some(items).
TickSome ==
    /\ pc = "query"
    /\ resp # <<>>
    /\ LET items == Head(resp).items
       IN  /\ scroll_state' =
                [scroll_state EXCEPT !.content_length = AsU16(Len(items))]
           /\ shows' = items
    /\ mode' = TickMode(mode)
    /\ resp' = Tail(resp)
    /\ pc' = "returned"
    /\ result' = "ok"
    /\ UNCHANGED <<running, table_state, seasons, season_table_state, op,
                   calls, db, req, worker_pc, worker_req, qid, overflow_checks>>

\* query returned None: the worker is gone and left no response.
TickNone ==
    /\ pc = "query"
    /\ resp = <<>>
    /\ worker_pc = "dead"
    /\ pc' = "returned"
    /\ result' = TickNoneResult
    /\ UNCHANGED <<app_vars, op, calls, dm_vars, qid, overflow_checks>>

-----------------------------------------------------------------------------
(* Selection navigation: App::next, prev, season_next, season_prev *)

Ok(i) == [panic |-> FALSE, i |-> i]
Overflow == [panic |-> TRUE, i |-> 0]

\* usize arithmetic that overflows panics in a build with overflow checks and
\* wraps in a build without: the build decides, once for the whole run.
Checked(overflows, i) ==
    IF overflows /\ overflow_checks THEN {Overflow} ELSE {Ok(i)}

AddOverflows(a, b) == a < 0 /\ a + b >= 0
SubOverflows(a, b) == UsizeLess(a, b)

\* Mutant: the clamp to the last index is dropped.
NextIndex_NoClamp(sel, step, len) ==
    IF IsSome(sel) THEN {Ok(Unwrap(sel) + step)} ELSE {Ok(0)}

\* `Some(i) => min(i + step, self.shows.len() - 1), None => 0`
NextIndex(sel, step, len) ==
    IF IsSome(sel)
    THEN Checked(AddOverflows(Unwrap(sel), step) \/ SubOverflows(len, 1),
                 UsizeMin(Unwrap(sel) + step, len - 1))
    ELSE {Ok(0)}

\* `Some(i) => max(i as i32 - step as i32, 0) as usize, None => self.shows.len() - 1`
PrevIndex(sel, step, len) ==
    IF IsSome(sel)
    THEN {Ok(I32Max(Unwrap(sel) - step, 0))}
    ELSE Checked(SubOverflows(len, 1), len - 1)

\* `let max = self.show_view.seasons.len() - 1;` comes first, then
\* `Some(i) => min(i + step, max), None => 0`
SeasonNextIndex(sel, step, len) ==
    IF IsSome(sel)
    THEN Checked(SubOverflows(len, 1) \/ AddOverflows(Unwrap(sel), step),
                 UsizeMin(Unwrap(sel) + step, len - 1))
    ELSE Checked(SubOverflows(len, 1), 0)

\* `Some(i) => max(i as i32 - step as i32, 0) as usize, None => 0`
SeasonPrevIndex(sel, step, len) ==
    IF IsSome(sel)
    THEN {Ok(I32Max(Unwrap(sel) - step, 0))}
    ELSE {Ok(0)}

\* The indices the model follows a selection to: the first MaxIndex + 1 numbers
\* (and the wrapped usize::MAX), and the last MaxIndex + 1 indices of the list.
Explored(i, len) == i <= MaxIndex \/ (i < len /\ i >= len - 1 - MaxIndex)

\* select(Some(i)) and position(i as u16)
SelectShow(o) ==
    IF o.panic
    THEN Panic
    ELSE /\ Explored(o.i, Len(shows))
         /\ table_state' = Some(o.i)
         /\ scroll_state' = [scroll_state EXCEPT !.position = AsU16(o.i)]
         /\ pc' = "returned"
         /\ result' = "ok"
         /\ calls' = <<>>
         /\ UNCHANGED <<running, mode, shows, seasons, season_table_state,
                        dm_vars, qid, overflow_checks>>

\* select(Some(i))
SelectSeason(o) ==
    IF o.panic
    THEN Panic
    ELSE /\ o.i <= MaxIndex
         /\ season_table_state' = Some(o.i)
         /\ pc' = "returned"
         /\ result' = "ok"
         /\ calls' = <<>>
         /\ UNCHANGED <<running, mode, table_state, scroll_state, shows, seasons,
                        dm_vars, qid, overflow_checks>>

next(step) ==
    /\ LoopTurn
    /\ op' = "next"
    /\ \E o \in NextIndex(table_state, step, Len(shows)) : SelectShow(o)

prev(step) ==
    /\ LoopTurn
    /\ op' = "prev"
    /\ \E o \in PrevIndex(table_state, step, Len(shows)) : SelectShow(o)

season_next(step) ==
    /\ LoopTurn
    /\ op' = "season_next"
    /\ \E o \in SeasonNextIndex(season_table_state, step, Len(seasons)) :
            SelectSeason(o)

season_prev(step) ==
    /\ LoopTurn
    /\ op' = "season_prev"
    /\ \E o \in SeasonPrevIndex(season_table_state, step, Len(seasons)) :
            SelectSeason(o)

-----------------------------------------------------------------------------
(* Status cycling: App::toggle_watch_status, toggle_season_watch_status *)

\* Mutant: Unwatched goes back to Watched instead of Todo.
NextShowStatus_TwoCycle(s) ==
    CASE s = "Todo" -> "Watched"
      [] s = "Watched" -> "Unwatched"
      [] s = "Unwatched" -> "Watched"

NextShowStatus(s) ==
    CASE s = "Todo" -> "Watched"
      [] s = "Watched" -> "Unwatched"
      [] s = "Unwatched" -> "Todo"

NextSeasonStatus(s) ==
    CASE s = "Unfilled" -> "OnRelease"
      [] s = "OnRelease" -> "OtherDate"
      [] s = "OtherDate" -> "Unfilled"

\* Mutant: the store update's failure is dropped (`let _ = ..`).
StoreResult_Swallowed(ok) == "ok"

\* The call returns what the store update returned (`?`).
StoreResult(ok) == IF ok THEN "ok" ELSE "err"

\* `let show = &mut self.shows[i]; show.user_status = match show.user_status ..`
ToggleShows(sel, rows) ==
    [rows EXCEPT ![Unwrap(sel) + 1].user_status =
        NextShowStatus(rows[Unwrap(sel) + 1].user_status)]

\* `t_db::update_show(show)?`, with the rows as they are when it is called
ToggleShowCalls(sel, rows, ok) ==
    <<Call("update_show", rows[Unwrap(sel) + 1].imdb_id,
           rows[Unwrap(sel) + 1].user_status, ok)>>

ToggleSeasons(sel, rows) ==
    [rows EXCEPT ![Unwrap(sel) + 1].user_status =
        NextSeasonStatus(rows[Unwrap(sel) + 1].user_status)]

ToggleSeasonCalls(sel, rows, ok) ==
    <<Call("update_season", rows[Unwrap(sel) + 1].season_no,
           rows[Unwrap(sel) + 1].user_status, ok)>>

toggle_watch_status ==
    /\ LoopTurn
    /\ op' = "toggle_watch_status"
    /\ IF ~IsSome(table_state)
       THEN Nothing
       ELSE IF ~InBounds(Unwrap(table_state), shows)
       THEN Panic
       ELSE \E ok \in BOOLEAN :
            /\ shows' = ToggleShows(table_state, shows)
            /\ calls' = ToggleShowCalls(table_state, shows', ok)
            /\ result' = StoreResult(ok)
            /\ pc' = "returned"
            /\ UNCHANGED <<running, mode, table_state, scroll_state, seasons,
                           season_table_state, dm_vars, qid, overflow_checks>>

toggle_season_watch_status ==
    /\ LoopTurn
    /\ op' = "toggle_season_watch_status"
    /\ IF ~IsSome(season_table_state)
       THEN Nothing
       ELSE IF ~InBounds(Unwrap(season_table_state), seasons)
       THEN Panic
       ELSE \E ok \in BOOLEAN :
            /\ seasons' = ToggleSeasons(season_table_state, seasons)
            /\ calls' = ToggleSeasonCalls(season_table_state, seasons', ok)
            /\ result' = StoreResult(ok)
            /\ pc' = "returned"
            /\ UNCHANGED <<running, mode, table_state, scroll_state, shows,
                           season_table_state, dm_vars, qid, overflow_checks>>

-----------------------------------------------------------------------------
(* App::quit and App::enter_show_details *)

\* Mutant: quit leaves the application running.
quit_NoStop == running' = TRUE

\* `self.running = false`
quit == running' = FALSE

\* Mutant: the mode test is dropped from the guard.
EnterGuard_AnyMode == IsSome(table_state)

\* `if self.mode == AppMode::MainView && let Some(i) = self.table_state.selected()`
EnterGuard == mode = "MainView" /\ IsSome(table_state)

\* Mutant: the catalog id is taken from the remote result every time.
MergeDetails_AlwaysAssign(show, d) ==
    [show EXCEPT !.overview = Some(d.overview),
                 !.network = Some(d.network),
                 !.no_episodes = Some(d.aired_episodes),
                 !.trakt_id = Some(d.trakt)]

\* The Ok arm's changes to the selected show.
MergeDetails(show, d) ==
    [show EXCEPT !.overview = Some(d.overview),
                 !.network = Some(d.network),
                 !.no_episodes = Some(d.aired_episodes),
                 !.trakt_id = IF show.trakt_id = None THEN Some(d.trakt) ELSE @]

\* `if !api_seasons.is_empty() { ...select(Some(0)) }`
SeasonSelectionOnEnter(sel, n_api) == IF n_api # 0 THEN Some(0) ELSE sel

\* Mutant: the update's failure is returned (`t_db::update_show(&show)?`).
PersistResult_Propagated(ok) == IF ok THEN "ok" ELSE "err"

\* `let _ = t_db::update_show(&show);`: whatever it returns, the call goes on.
PersistResult(ok) == "ok"

\* The Err arm: log, quit, bail.
EnterLookupFailed(i) ==
    /\ quit
    /\ result' = "err"
    /\ calls' = <<Call("query_detailed", shows[i + 1].imdb_id, 0, FALSE)>>
    /\ UNCHANGED <<mode, table_state, scroll_state, shows, seasons,
                   season_table_state>>

\* The Ok arm, for a remote answer with n seasons.
EnterLookupOk(i, n) ==
    \E upd_ok \in BOOLEAN, rec_ok \in BOOLEAN :
        LET show == MergeDetails(shows[i + 1], ShowDetails(shows[i + 1].imdb_id))
            done == <<Call("query_detailed", show.imdb_id, n, TRUE),
                      Call("update_show", show.imdb_id, show.user_status,
                           upd_ok)>>
            rec == Call("update_show_with_seasons", show.imdb_id, n, rec_ok)
        IN  /\ shows' = [shows EXCEPT ![i + 1] = show]
            /\ IF PersistResult(upd_ok) = "err"
               THEN /\ result' = "err"
                    /\ calls' = done
                    /\ UNCHANGED <<mode, seasons, season_table_state>>
               ELSE /\ calls' = Append(done, rec)
                    /\ IF rec_ok
                       THEN /\ seasons' = ReconciledSeasons(n)
                            /\ season_table_state' =
                                 SeasonSelectionOnEnter(season_table_state, n)
                            /\ mode' = "SeasonView"
                            /\ result' = "ok"
                       ELSE /\ result' = "err"
                            /\ UNCHANGED <<mode, seasons, season_table_state>>
            /\ UNCHANGED <<running, table_state, scroll_state>>

enter_show_details ==
    /\ LoopTurn
    /\ op' = "enter_show_details"
    /\ IF ~EnterGuard
       THEN Nothing
       ELSE IF ~InBounds(Unwrap(table_state), shows)
       THEN Panic
       ELSE /\ \/ EnterLookupFailed(Unwrap(table_state))
               \/ \E n \in 0..MaxSeasons :
                      EnterLookupOk(Unwrap(table_state), n)
            /\ pc' = "returned"
            /\ UNCHANGED <<dm_vars, qid, overflow_checks>>

-----------------------------------------------------------------------------
(* The input layer: key events that quit or change the mode *)

\* Esc, q and Ctrl-C call App::quit.
Quit ==
    /\ LoopTurn
    /\ op' = "quit"
    /\ quit
    /\ pc' = "returned"
    /\ result' = "ok"
    /\ calls' = <<>>
    /\ UNCHANGED <<mode, table_state, scroll_state, shows, seasons,
                   season_table_state, dm_vars, qid, overflow_checks>>

\* SeasonView -> MainView and MainView <-> Querying.  HelpWindow is never
\* constructed (`#[allow(dead_code)]`) and enter_show_details alone enters
\* SeasonView.
ModeChanges ==
    {<<"SeasonView", "MainView">>,
     <<"MainView", "Querying">>, <<"Querying", "MainView">>}

SetMode(m) ==
    /\ LoopTurn
    /\ <<mode, m>> \in ModeChanges
    /\ op' = "set_mode"
    /\ mode' = m
    /\ pc' = "returned"
    /\ result' = "ok"
    /\ calls' = <<>>
    /\ UNCHANGED <<running, table_state, scroll_state, shows, seasons,
                   season_table_state, dm_vars, qid, overflow_checks>>

-----------------------------------------------------------------------------
(* The program *)

Next ==
    \/ LoopNext
    \/ TickSkip
    \/ TickCall
    \/ TickSome
    \/ TickNone
    \/ WorkerRecv
    \/ WorkerReply
    \/ WorkerDie
    \/ \E step \in Steps : next(step)
    \/ \E step \in Steps : prev(step)
    \/ \E step \in Steps : season_next(step)
    \/ \E step \in Steps : season_prev(step)
    \/ toggle_watch_status
    \/ toggle_season_watch_status
    \/ enter_show_details
    \/ Quit
    \/ \E m \in AppMode : SetMode(m)

Spec == Init /\ [][Next]_vars

\* The two threads are scheduled fairly: the worker takes a waiting request
\* and its listing read ends (with the answer or with its death), and the
\* caller blocked in query goes on once the answer or the worker's loss is
\* there.
Fairness ==
    /\ WF_vars(WorkerRecv)
    /\ WF_vars(WorkerReply \/ WorkerDie)
    /\ WF_vars(TickSome)
    /\ WF_vars(TickNone)

FairSpec == Spec /\ Fairness

\* The same program over the large store, with the events that load the show
\* list and move the show selection.
LargeInit == Start(LargeStoreContents)

LargeNext ==
    \/ LoopNext
    \/ TickSkip
    \/ TickCall
    \/ TickSome
    \/ TickNone
    \/ WorkerRecv
    \/ WorkerReply
    \/ WorkerDie
    \/ \E step \in Steps : next(step)
    \/ \E step \in Steps : prev(step)

LargeSpec == LargeInit /\ [][LargeNext]_vars

TypeOK ==
    /\ running \in BOOLEAN
    /\ mode \in AppMode
    /\ pc \in {"idle", "query", "returned", "panicked"}
    /\ result \in {"ok", "err"}
    /\ worker_pc \in {"idle", "reading", "dead"}
    /\ qid \in 0..MaxQueries
    /\ Len(shows) <= MaxShows
    /\ Len(seasons) <= MaxSeasons

-----------------------------------------------------------------------------
(* Steps of the calls, as the properties below name them *)

\* The step in which the loop calls the App method `name`.
Calls(name) == pc = "idle" /\ op' = name

\* The step in which a call returns to the loop (it did not panic).
Returns == pc' = "returned" /\ pc # "returned"

\* The number of Data Manager requests sent and not yet answered to the caller.
Outstanding ==
    Len(req) + (IF worker_pc = "reading" THEN 1 ELSE 0) + Len(resp)

-----------------------------------------------------------------------------
(* C1: in every reachable state the show selection is None only when the   *)
(* show list is empty, and otherwise is an index strictly less than the    *)
(* length of the show list.                                                *)
C1_ShowSelectionValid ==
    /\ table_state = None => shows = <<>>
    /\ IsSome(table_state) => InBounds(Unwrap(table_state), shows)

(* C2: in every reachable state the season selection is None only when the *)
(* season list is empty, and otherwise is an index strictly less than the  *)
(* length of the season list.                                              *)
C2_SeasonSelectionValid ==
    /\ season_table_state = None => seasons = <<>>
    /\ IsSome(season_table_state) =>
            InBounds(Unwrap(season_table_state), seasons)

(* C3: every successful enter_show_details (every transition into          *)
(* SeasonView) leaves the season selection at index 0 if the resulting     *)
(* season list is non-empty and at None if it is empty, whatever the       *)
(* selection was before.                                                   *)
C3_EnterSelectsFirstOrNone ==
    [][(Calls("enter_show_details") /\ Returns /\ calls' # <<>>
            /\ result' = "ok")
        => season_table_state' =
                (IF seasons' # <<>> THEN Some(0) ELSE None)]_vars

(* C4: at most one Data Manager request is outstanding at any time, and    *)
(* only while the interactive loop is blocked in query; the request in the *)
(* channel, the one the worker serves and the response waiting for the     *)
(* caller all belong to the caller's current query call.                   *)
C4_OneQueryInFlight ==
    /\ Outstanding <= 1
    /\ Outstanding = 1 => pc = "query"
    /\ \A k \in 1..Len(req) : req[k].id = qid
    /\ IsSome(worker_req) => Unwrap(worker_req).id = qid
    /\ \A k \in 1..Len(resp) : resp[k].id = qid

\* The response to the second query of a run waits for its caller.
C4_Witness ==
    /\ pc = "query"
    /\ qid = 2
    /\ resp # <<>>
    /\ Head(resp).id = 2

(* C5: when the worker has terminated, the tick that is in query gets None *)
(* and fails with an error; the failing tick leaves mode, show list,       *)
(* scroll state and selection unchanged.                                   *)
C5_WorkerLostFailsTick ==
    [][(pc = "query" /\ worker_pc = "dead" /\ pc' # "query")
        => /\ pc' = "returned"
           /\ op' = "tick"
           /\ result' = "err"
           /\ UNCHANGED <<mode, shows, scroll_state, table_state>>]_vars

\* A tick has failed in Initializing because the worker is gone.
C5_Witness ==
    /\ op = "tick"
    /\ pc = "returned"
    /\ result = "err"
    /\ worker_pc = "dead"
    /\ mode = "Initializing"
    /\ shows = <<>>

C7_LookupFailureQuits ==
    [][(Calls("enter_show_details") /\ Returns /\ Len(calls') >= 1
            /\ calls'[1].name = "query_detailed" /\ ~calls'[1].ok)
        => /\ result' = "err"
           /\ running' = FALSE
           /\ Len(calls') = 1
           /\ mode = "MainView"
           /\ UNCHANGED <<mode, shows, seasons, table_state,
                          season_table_state>>]_vars

\* A detail lookup has failed.
C7_Witness ==
    /\ op = "enter_show_details"
    /\ pc = "returned"
    /\ result = "err"
    /\ ~running
    /\ Len(calls) = 1
    /\ ~calls[1].ok

(* C8: enter_show_details called in a mode other than MainView, or with no *)
(* show selected, makes no Remote Client or Local Store call, returns      *)
(* success and changes nothing; SeasonView is only ever entered from       *)
(* MainView, by enter_show_details.                                        *)
C8_EnterOnlyFromMainView ==
    [][/\ (Calls("enter_show_details")
                /\ ~(mode = "MainView" /\ IsSome(table_state)))
            => /\ pc' = "returned"
               /\ calls' = <<>>
               /\ result' = "ok"
               /\ UNCHANGED app_vars
       /\ (mode' = "SeasonView" /\ mode # "SeasonView")
            => mode = "MainView" /\ Calls("enter_show_details")]_vars

\* enter_show_details was called in Querying with a show selected.
C8_Witness ==
    /\ op = "enter_show_details"
    /\ pc = "returned"
    /\ mode = "Querying"
    /\ IsSome(table_state)
    /\ InBounds(Unwrap(table_state), shows)
    /\ calls = <<>>

(* C9: status cycling is a closed cycle of period 3.  Every                *)
(* toggle_watch_status of a selected show moves its status one step along  *)
(* Todo -> Watched -> Unwatched -> Todo, and two more applications of the  *)
(* cycle lead back to the status it had, while one does not; every         *)
(* toggle_season_watch_status does the same along                          *)
(* Unfilled -> OnRelease -> OtherDate -> Unfilled.                         *)
C9_StatusCyclePeriod3 ==
    [][/\ (Calls("toggle_watch_status") /\ Returns /\ IsSome(table_state))
            => LET s0 == shows[Unwrap(table_state) + 1].user_status
                   s1 == shows'[Unwrap(table_state) + 1].user_status
                   s2 == NextShowStatus(s1)
                   s3 == NextShowStatus(s2)
               IN  /\ <<s0, s1>> \in {<<"Todo", "Watched">>,
                                      <<"Watched", "Unwatched">>,
                                      <<"Unwatched", "Todo">>}
                   /\ s1 # s0 /\ s2 # s0 /\ s3 = s0
       /\ (Calls("toggle_season_watch_status") /\ Returns
                /\ IsSome(season_table_state))
            => LET s0 == seasons[Unwrap(season_table_state) + 1].user_status
                   s1 == seasons'[Unwrap(season_table_state) + 1].user_status
                   s2 == NextSeasonStatus(s1)
                   s3 == NextSeasonStatus(s2)
               IN  /\ <<s0, s1>> \in {<<"Unfilled", "OnRelease">>,
                                      <<"OnRelease", "OtherDate">>,
                                      <<"OtherDate", "Unfilled">>}
                   /\ s1 # s0 /\ s2 # s0 /\ s3 = s0]_vars

\* The first show, listed as Todo, has been cycled back to Todo.
C9_Witness ==
    /\ op = "toggle_watch_status"
    /\ pc = "returned"
    /\ table_state = Some(0)
    /\ calls # <<>>
    /\ db[1].user_status = "Todo"
    /\ shows[1].user_status = "Todo"

(* C10: a status-cycling call with nothing selected changes no entity and  *)
(* makes no Local Store call; a status-cycling call with a selection       *)
(* returns having changed the status of exactly the selected entity and    *)
(* having made exactly one Local Store update, for that entity, with the   *)
(* status it has after the mutation.                                       *)
C10_ToggleFrame ==
    [][/\ Calls("toggle_watch_status")
            => IF table_state = None
               THEN calls' = <<>> /\ UNCHANGED <<shows, seasons>>
               ELSE LET i == Unwrap(table_state) + 1
                    IN  /\ Returns
                        /\ i \in 1..Len(shows)
                        /\ Len(shows') = Len(shows)
                        /\ shows'[i].user_status # shows[i].user_status
                        /\ \A j \in 1..Len(shows) : j # i => shows'[j] = shows[j]
                        /\ seasons' = seasons
                        /\ calls' = <<Call("update_show", shows[i].imdb_id,
                                           shows'[i].user_status,
                                           result' = "ok")>>
       /\ Calls("toggle_season_watch_status")
            => IF season_table_state = None
               THEN calls' = <<>> /\ UNCHANGED <<shows, seasons>>
               ELSE LET i == Unwrap(season_table_state) + 1
                    IN  /\ Returns
                        /\ i \in 1..Len(seasons)
                        /\ Len(seasons') = Len(seasons)
                        /\ seasons'[i].user_status # seasons[i].user_status
                        /\ \A j \in 1..Len(seasons) :
                                j # i => seasons'[j] = seasons[j]
                        /\ shows' = shows
                        /\ calls' = <<Call("update_season",
                                           seasons[i].season_no,
                                           seasons'[i].user_status,
                                           result' = "ok")>>]_vars

(* C11: when the Local Store update of a status-cycling call (show or      *)
(* season) fails, the call returns an error; the selected entity's         *)
(* in-memory status has advanced to the next value and stays advanced, and *)
(* that value is the one the failed update carried, so memory and store    *)
(* differ after the call.                                                  *)
C11_ToggleFailurePropagates ==
    [][/\ (Calls("toggle_watch_status") /\ Returns /\ calls' # <<>>
                /\ ~calls'[1].ok)
            => LET i == Unwrap(table_state) + 1
               IN  /\ result' = "err"
                   /\ <<shows[i].user_status, shows'[i].user_status>> \in
                        {<<"Todo", "Watched">>, <<"Watched", "Unwatched">>,
                         <<"Unwatched", "Todo">>}
                   /\ calls'[1].val = shows'[i].user_status
       /\ (Calls("toggle_season_watch_status") /\ Returns /\ calls' # <<>>
                /\ ~calls'[1].ok)
            => LET i == Unwrap(season_table_state) + 1
               IN  /\ result' = "err"
                   /\ <<seasons[i].user_status, seasons'[i].user_status>> \in
                        {<<"Unfilled", "OnRelease">>,
                         <<"OnRelease", "OtherDate">>,
                         <<"OtherDate", "Unfilled">>}
                   /\ calls'[1].val = seasons'[i].user_status]_vars

\* The update of the first show has failed: the call returned the error and the
\* show is Watched in memory while the store still lists it as Todo.
C11_Witness ==
    /\ op = "toggle_watch_status"
    /\ pc = "returned"
    /\ result = "err"
    /\ table_state = Some(0)
    /\ Len(calls) = 1
    /\ ~calls[1].ok
    /\ shows[1].user_status = "Watched"
    /\ db[1].user_status = "Todo"

C13_MoveBackwardClamps ==
    [][/\ Calls("prev")
            => /\ Returns
               /\ IF table_state = None
                  THEN /\ table_state' = Some(Len(shows) - 1)
                       /\ InBounds(Unwrap(table_state'), shows')
                  ELSE /\ \E step \in Steps :
                            table_state' =
                                IF Unwrap(table_state) - step >= 0
                                THEN Some(Unwrap(table_state) - step)
                                ELSE Some(0)
                       /\ Unwrap(table_state') >= 0
       /\ Calls("season_prev")
            => /\ Returns
               /\ IF season_table_state = None
                  THEN season_table_state' = Some(0)
                  ELSE /\ \E step \in Steps :
                            season_table_state' =
                                IF Unwrap(season_table_state) - step >= 0
                                THEN Some(Unwrap(season_table_state) - step)
                                ELSE Some(0)
                       /\ Unwrap(season_table_state') >= 0]_vars

(* C14: season navigation on an empty season list (season_next and         *)
(* season_prev, any step) is a no-op: it returns without panic and leaves  *)
(* the season selection as it was.                                         *)
C14_SeasonNavEmptyNoOp ==
    [][((Calls("season_next") \/ Calls("season_prev")) /\ seasons = <<>>)
        => /\ Returns
           /\ season_table_state' = season_table_state]_vars

(* C15: after every show-list navigation call (next or prev, any step, any *)
(* list length) that selects an index of the show list, the scroll         *)
(* indicator position equals the selected index, also for indices above    *)
(* 65535.                                                                  *)
C15_ScrollFollowsSelection ==
    [][((Calls("next") \/ Calls("prev")) /\ Returns
            /\ InBounds(Unwrap(table_state'), shows'))
        => scroll_state'.position = Unwrap(table_state')]_vars

(* C16: the Local Store is never accessed by the background worker and the *)
(* interactive loop at the same time.  The worker executes its listing     *)
(* read only while the interactive loop is blocked in query, where it      *)
(* makes no store call; and in a step in which the interactive loop makes  *)
(* a store call (update_show, update_season, update_show_with_seasons) the *)
(* worker is not reading and has no request it could start to read for.    *)
C16_StoreAccessSerialized ==
    [][/\ worker_pc' = "reading" => (pc' = "query" /\ calls' = <<>>)
       /\ (\E k \in 1..Len(calls') :
                calls'[k].name \in {"update_show", "update_season",
                                    "update_show_with_seasons"})
            => /\ worker_pc # "reading"
               /\ worker_pc' # "reading"
               /\ req = <<>>
               /\ req' = <<>>]_vars

\* The interactive loop has updated a show in the store, after the worker's
\* listing read of the one query was answered; the worker is idle.
C16_Witness ==
    /\ op = "toggle_watch_status"
    /\ pc = "returned"
    /\ calls # <<>>
    /\ calls[1].name = "update_show"
    /\ qid = 1
    /\ worker_pc = "idle"
    /\ req = <<>>
    /\ resp = <<>>

(* C17: on a successful detail fetch the selected show's catalog id is     *)
(* assigned from the remote result only if the show had none, and a        *)
(* catalog id the show already has is kept; overview, network and episode  *)
(* count are overwritten with the remote result each time; the show's      *)
(* other fields and every other show are not modified.                     *)
C17_CatalogIdAssignedOnce ==
    [][(Calls("enter_show_details") /\ Returns /\ calls' # <<>>
            /\ calls'[1].name = "query_detailed" /\ calls'[1].ok)
        => LET i == Unwrap(table_state) + 1
               d == ShowDetails(shows[i].imdb_id)
           IN  /\ Len(shows') = Len(shows)
               /\ shows'[i].trakt_id =
                    (IF shows[i].trakt_id = None THEN Some(d.trakt)
                     ELSE shows[i].trakt_id)
               /\ shows'[i].overview = Some(d.overview)
               /\ shows'[i].network = Some(d.network)
               /\ shows'[i].no_episodes = Some(d.aired_episodes)
               /\ shows'[i].imdb_id = shows[i].imdb_id
               /\ shows'[i].user_status = shows[i].user_status
               /\ \A j \in 1..Len(shows) : j # i => shows'[j] = shows[j]]_vars

\* The details of the second show, which has a catalog id other than the one
\* the remote reports, were fetched and its catalog id is kept; the first show,
\* which had none, got the remote's in an earlier fetch.
C17_Witness ==
    /\ op = "enter_show_details"
    /\ pc = "returned"
    /\ calls # <<>>
    /\ calls[1].ok
    /\ table_state = Some(1)
    /\ Len(shows) = 2
    /\ shows[2].trakt_id = Some(2)
    /\ ShowDetails(shows[2].imdb_id).trakt # 2
    /\ db[1].trakt_id = None
    /\ shows[1].trakt_id = Some(ShowDetails(shows[1].imdb_id).trakt)
    /\ shows[1].overview # db[1].overview

(* C18: every query issued to the Data Manager eventually completes.  With *)
(* the worker scheduled fairly, the tick blocked in query eventually       *)
(* returns; it returns with the result list when the worker answered and   *)
(* with the worker-lost error when the worker has terminated; and every    *)
(* request sent is eventually taken by the worker, the second one of a run *)
(* like the first.                                                         *)
C18_QueryCompletes ==
    /\ (pc = "query") ~> (pc = "returned" /\ op = "tick")
    /\ (req # <<>>) ~> (req = <<>>)
    /\ [][(pc = "query" /\ pc' # "query")
            => \/ /\ result' = "ok"
                  /\ worker_pc # "dead"
                  /\ resp # <<>>
                  /\ shows' = Head(resp).items
               \/ /\ result' = "err"
                  /\ worker_pc = "dead"]_vars

\* The second query of a run was answered by the worker that answered the first.
C18_Witness ==
    /\ op = "tick"
    /\ pc = "returned"
    /\ result = "ok"
    /\ qid = 2
    /\ worker_pc = "idle"
    /\ req = <<>>
    /\ resp = <<>>

(* C19: tick issues a Data Manager query exactly when the show list is     *)
(* empty, in whatever mode; once the list is non-empty no tick queries and *)
(* no step changes the list's length or order; with a store that lists     *)
(* zero shows the first tick moves the mode to MainView and a later tick   *)
(* queries again; and tick changes the mode only from Initializing to      *)
(* MainView.                                                               *)
C19_TickQueriesWhenEmpty ==
    [][/\ Calls("tick")
            => IF shows = <<>>
               THEN pc' = "query" /\ qid' = qid + 1
               ELSE pc' = "returned" /\ UNCHANGED <<qid, req, app_vars>>
       /\ shows # <<>>
            => /\ Len(shows') = Len(shows)
               /\ \A k \in 1..Len(shows) : shows'[k].imdb_id = shows[k].imdb_id
       /\ (pc = "query" /\ Returns /\ result' = "ok" /\ Head(resp).items = <<>>)
            => /\ shows' = <<>>
               /\ mode' = (IF mode = "Initializing" THEN "MainView" ELSE mode)
       /\ ((Calls("tick") \/ pc = "query") /\ mode' # mode)
            => mode = "Initializing" /\ mode' = "MainView"]_vars

\* The store lists zero shows: the first tick has moved the mode to MainView,
\* and a later tick is in its query again.
C19_Witness ==
    /\ op = "tick"
    /\ pc = "query"
    /\ qid = 2
    /\ mode = "MainView"
    /\ shows = <<>>
    /\ db = <<>>
    /\ worker_pc # "dead"

(* C20: in enter_show_details after a successful remote lookup, a failure  *)
(* of the persisting update_show is ignored: the season reconciliation is  *)
(* still called and, if it succeeds, the mode becomes SeasonView and the   *)
(* call returns success.  A failure of the season reconciliation returns   *)
(* an error with the mode still MainView, running still true and the       *)
(* season list and season selection unchanged, while the selected show's   *)
(* overview, network, episode count and catalog id are already modified.   *)
C20_PersistIgnoredReconcileFails ==
    [][(Calls("enter_show_details") /\ Returns /\ calls' # <<>>
            /\ calls'[1].name = "query_detailed" /\ calls'[1].ok)
        => LET i == Unwrap(table_state) + 1
               d == ShowDetails(shows[i].imdb_id)
           IN  /\ Len(calls') = 3
               /\ calls'[2].name = "update_show"
               /\ calls'[3].name = "update_show_with_seasons"
               /\ IF calls'[3].ok
                  THEN mode' = "SeasonView" /\ result' = "ok"
                  ELSE /\ result' = "err"
                       /\ mode = "MainView"
                       /\ mode' = "MainView"
                       /\ running' = TRUE
                       /\ UNCHANGED <<seasons, season_table_state>>
                       /\ shows'[i].overview = Some(d.overview)
                       /\ shows'[i].network = Some(d.network)
                       /\ shows'[i].no_episodes = Some(d.aired_episodes)
                       /\ shows'[i].trakt_id # None]_vars

\* Both store calls failed for the first show: the failed update_show was
\* passed over, the failed reconciliation returned the error in MainView, and
\* the show holds the fetched fields, which the store does not list.
C20_Witness ==
    /\ op = "enter_show_details"
    /\ pc = "returned"
    /\ result = "err"
    /\ running
    /\ mode = "MainView"
    /\ table_state = Some(0)
    /\ Len(calls) = 3
    /\ ~calls[2].ok
    /\ ~calls[3].ok
    /\ shows[1].trakt_id # None
    /\ db[1].trakt_id = None
    /\ shows[1].overview # db[1].overview

====
